---- MODULE Spec2Model ----
(***************************************************************************)
(* Model of the multi-agent coordination core:                            *)
(*   - the workflow engine of MultiAgentOrchestrationAgent                 *)
(*     (agents/implementations/orchestration/agent.py),                    *)
(*   - the agent contract of BaseAgent (agents/core/base.py),              *)
(*   - the instance cache of AgentRegistry (agents/core/registry.py),      *)
(*   - the message bus and request/response correlation of MessageBus      *)
(*     and AgentCommunicator (agents/core/communication.py).               *)
(* Spec     : one workflow execution driven by the engine, with pause,     *)
(*            resume and cancel requests arriving at any suspension point. *)
(* FairSpec : Spec with the event loop's fairness (a runnable coroutine is *)
(*            eventually run).                                             *)
(* RegSpec  : concurrent get_agent / stop_agent / remove_agent callers on  *)
(*            one agent id of one registry.                                *)
(* BusSpec  : publishers, subscribers and the processing loop of one bus.  *)
(* QueueSpec: a burst of equal-timestamp messages through the priority     *)
(*            queue of one bus.                                            *)
(* CommSpec : requests, responses, timeouts and cleanup of one             *)
(*            communicator on one bus.                                     *)
(* DeliverySpec : handlers of one recipient subscribed and unsubscribed     *)
(*            while messages are delivered.                                *)
(* BroadcastSpec : status broadcasts of one agent on a bus where another   *)
(*            agent's communicator is initialized.                         *)
(* CondSpec : one evaluation of a step condition (_evaluate_condition).    *)
(***************************************************************************)
EXTENDS Integers, Sequences, FiniteSets, TLC

\* ------------------------------------------------------------------ bounds
MaxRetry == 2        \* largest retry_count of a workflow
NumCallers == 3      \* coroutines calling the registry concurrently
MaxCalls == 4        \* registry calls issued in one run
MaxInst == 2         \* agent instances constructed in one run
MaxStamp == 2        \* distinct values of Message.timestamp
MaxMsgs == 3         \* messages published on the bus in one run
NumRequests == 2     \* send_request calls of one communicator
MaxSubscribe == 2    \* subscribe / initialize calls in one run
MaxBurst == 7        \* messages published in one run of the queue alone

\* --------------------------------------------------------------- variables
VARIABLES
    definition,       \* execution.definition (WorkflowDefinition)
    active,           \* execution_id in self.active_executions
    status,           \* execution.status
    current_step,     \* execution.current_step
    step_results,     \* execution.step_results
    error_log,        \* execution.error_log
    pc,               \* position of the coroutine driving the execution
    idx,              \* loop position (sequential: step index; parallel: index in tasks)
    pending_steps,    \* local of _execute_parallel_workflow
    completed_steps,  \* local of _execute_parallel_workflow
    results,          \* local of both workflow loops
    context,          \* local of both workflow loops
    tasks,            \* the (step, task) list of the current ready batch
    task,             \* per step: the _execute_step coroutine
    agentStatus,      \* per agent id: BaseAgent.status of the registry's instance
    hist,             \* per step: observations of the run (history)
    ret               \* the value returned by _execute_workflow

VARIABLES
    agents,           \* AgentRegistry.agents[agent_id]: the cached instance, 0 when absent
    inst,             \* per instance: BaseAgent.status ("unborn" before construction)
    monitoring,       \* agent_id in monitor.monitoring_tasks
    locked,           \* AgentRegistry._lock is held
    waiters,          \* the lock's FIFO queue of suspended acquirers
    call,             \* per caller: the registry coroutine it runs
    reg               \* observations of the run (history)

VARIABLES
    subscribers,      \* MessageBus.subscribers: recipient id -> list of callbacks
    message_queue,    \* MessageBus.message_queue: the heap list of the PriorityQueue
    running,          \* MessageBus.running
    loop,             \* the processor task (_process_messages / _deliver_message)
    pending_requests, \* AgentCommunicator.pending_requests: request id -> future
    request,          \* per requester: the send_request coroutine
    nextId,           \* messages constructed so far, plus one (Message.id)
    sent              \* observation: the last send_message call and how it ended

VARIABLES
    evaluation        \* one call of _evaluate_condition: its inputs and its outcome

condVars == <<evaluation>>

regVars == <<agents, inst, monitoring, locked, waiters, call, reg>>

busVars == <<subscribers, message_queue, running, loop, pending_requests, request,
             nextId, sent>>

engineVars == <<definition, active, status, current_step, step_results, error_log,
                pc, idx, pending_steps, completed_steps, results, context, tasks,
                task, agentStatus, hist, ret>>

vars == <<engineVars, regVars, busVars, condVars>>

\* ------------------------------------------------------------ data model
StepIds == {"A", "B", "C", "D", "E", "X", "Y"}
AgentIds == {"a1", "a2", "ghost"}
\* agent classes known to the engine's registry; "ghost" is not registered
agent_classes == {"a1", "a2"}

Step(id, agent, deps, ref, cond) ==
    [id |-> id, agent_id |-> agent, dependencies |-> deps, ref |-> ref, condition |-> cond]

\* A -> B -> C, each step consuming its predecessor's result
WfChain == << Step("A", "a1", {}, "none", FALSE),
              Step("B", "a2", {"A"}, "A", FALSE),
              Step("C", "a1", {"B"}, "B", FALSE) >>
\* A, B independent, C joins both
WfJoin == << Step("A", "a1", {}, "none", FALSE),
             Step("B", "a2", {}, "none", FALSE),
             Step("C", "a1", {"A", "B"}, "A", FALSE) >>
\* X and Y depend on each other
WfCycle == << Step("X", "a1", {"Y"}, "none", FALSE),
              Step("Y", "a2", {"X"}, "none", FALSE) >>
\* B and its dependent E; D is independent of B but shares B's agent
WfSiblings == << Step("A", "a2", {}, "none", FALSE),
                 Step("B", "a1", {}, "none", FALSE),
                 Step("D", "a1", {"A"}, "A", FALSE),
                 Step("E", "a2", {"B"}, "B", FALSE) >>
\* a guarded step, and a step bound to an agent id the registry does not know
WfGuarded == << Step("A", "a1", {}, "none", TRUE),
                Step("B", "ghost", {"A"}, "C", FALSE) >>

\* two independent steps bound to the same agent
WfShared == << Step("A", "a1", {}, "none", FALSE),
               Step("B", "a1", {}, "none", FALSE) >>

StepLists == {WfChain, WfJoin, WfCycle, WfSiblings, WfGuarded, WfShared}

Definitions ==
    [steps : StepLists, parallel_execution : BOOLEAN,
     on_failure : {"stop", "continue"}, retry_count : 0..MaxRetry]

Range(seq) == {seq[i] : i \in 1..Len(seq)}
Ids(seq) == {seq[i].id : i \in 1..Len(seq)}
StepOf(id) == CHOOSE st \in Range(definition.steps) : st.id = id
Remove(seq, id) == SelectSeq(seq, LAMBDA st : st.id # id)

\* dictionaries keyed by step id
EmptyMap == [k \in {} |-> << >>]
Put(map, k, v) == [x \in DOMAIN map \cup {k} |-> IF x = k THEN v ELSE map[x]]

NoTask == [pc |-> "none", attempt |-> 0, input |-> <<>>, err |-> "none"]
NoHist == [invoked |-> 0, ownFail |-> FALSE, rejected |-> FALSE, busyReject |-> FALSE]

\* ---------------------------------------------------------- pure functions
\* _substitute_context_variables: a task_data value "from_<X>" is replaced by
\* context["<X>_result"], and kept as the literal when the key is absent
SubstituteContextVariables(st, ctx) ==
    IF st.ref = "none" THEN <<>>
    ELSE IF st.ref \in DOMAIN ctx THEN ctx[st.ref]
    ELSE <<"from_", st.ref>>

\* what the agent's process() returns for a step and its substituted input
ProcessResult(id, input) == <<id>> \o input

\* _check_dependencies
CheckDependencies(st, res) == st.dependencies \subseteq DOMAIN res

\* the ready list of _execute_parallel_workflow
ReadyStepsUnfiltered(pending, completed) == pending
ReadyStepsAny(pending, completed) ==
    SelectSeq(pending, LAMBDA st :
        st.dependencies = {} \/ \E dep \in st.dependencies : dep \in completed)
ReadySteps(pending, completed) ==
    SelectSeq(pending, LAMBDA st : \A dep \in st.dependencies : dep \in completed)

\* the deadlock test of _execute_parallel_workflow
RemainingDeps(pending) == UNION {st.dependencies : st \in Range(pending)}
DeadlockDetected(pending) ==
    ~ \E dep \in RemainingDeps(pending) : dep \in Ids(pending)

\* the last-attempt test of _execute_step
LastAttemptOffByOne(attempt, retry_count) == attempt = retry_count
LastAttempt(attempt, retry_count) == attempt = retry_count - 1

\* the step_results of the sequential loop (lines 324-341) when every executed
\* step succeeds and no condition is false
RECURSIVE SequentialResults(_, _, _)
SequentialResults(steps, i, res) ==
    IF i > Len(steps) THEN res
    ELSE IF ~CheckDependencies(steps[i], res) THEN SequentialResults(steps, i + 1, res)
    ELSE SequentialResults(steps, i + 1,
            Put(res, steps[i].id,
                ProcessResult(steps[i].id, SubstituteContextVariables(steps[i], res))))

\* ------------------------------------------------------------------ Init
EngineInit ==
    /\ definition \in Definitions
    /\ active = FALSE
    /\ status = "pending"
    /\ current_step = 0
    /\ step_results = EmptyMap
    /\ error_log = << >>
    /\ pc = "init"
    /\ idx = 0
    /\ pending_steps = << >>
    /\ completed_steps = {}
    /\ results = EmptyMap
    /\ context = EmptyMap
    /\ tasks = << >>
    /\ task = [s \in StepIds |-> NoTask]
    /\ agentStatus = [a \in AgentIds |-> "uncached"]
    /\ hist = [s \in StepIds |-> NoHist]
    /\ ret = [kind |-> "none"]

\* ------------------------------------------------- _execute_workflow (frame)
\* lines 255-282: the execution record is created RUNNING and registered
ExecuteWorkflow ==
    /\ pc = "init"
    /\ active' = TRUE
    /\ status' = "running"
    /\ pending_steps' = IF definition.parallel_execution THEN definition.steps ELSE << >>
    /\ idx' = 1
    /\ pc' = IF definition.parallel_execution THEN "par_loop" ELSE "seq_loop"
    /\ UNCHANGED <<regVars, busVars, condVars>>
    /\ UNCHANGED <<definition, current_step, step_results, error_log, completed_steps,
                   results, context, tasks, task, agentStatus, hist, ret>>

\* lines 284-298: the workflow coroutine returned
Completed(res) ==
    /\ status' = "completed"
    /\ pc' = "done"
    /\ ret' = [kind |-> "workflow_completed", steps_executed |-> Cardinality(DOMAIN res),
               step_results |-> res]

\* lines 300-316: the workflow coroutine raised
Failed(log, err) ==
    /\ status' = "failed"
    /\ pc' = "done"
    /\ error_log' = Append(log, <<"error", err>>)
    /\ ret' = [kind |-> "failure", error |-> err]

\* ------------------------------------------- _execute_sequential_workflow
\* the for loop is exhausted: return
SeqReturn ==
    /\ pc = "seq_loop"
    /\ idx > Len(definition.steps)
    /\ Completed(results)
    /\ UNCHANGED <<regVars, busVars, condVars>>
    /\ UNCHANGED <<definition, active, current_step, step_results, error_log, idx,
                   pending_steps, completed_steps, results, context, tasks, task,
                   agentStatus, hist>>

\* lines 326-331: a step with an unmet dependency or a false condition is skipped
SeqSkip ==
    /\ pc = "seq_loop"
    /\ idx <= Len(definition.steps)
    /\ LET st == definition.steps[idx] IN
          \/ ~CheckDependencies(st, results)
          \/ CheckDependencies(st, results) /\ st.condition
    /\ idx' = idx + 1
    /\ UNCHANGED <<regVars, busVars, condVars>>
    /\ UNCHANGED <<definition, active, status, current_step, step_results, error_log, pc,
                   pending_steps, completed_steps, results, context, tasks, task,
                   agentStatus, hist, ret>>

\* line 334: await self._execute_step(step, context)
SeqExecute ==
    /\ pc = "seq_loop"
    /\ idx <= Len(definition.steps)
    /\ LET st == definition.steps[idx] IN
          /\ CheckDependencies(st, results)
          /\ task' = [task EXCEPT ![st.id] = [NoTask EXCEPT !.pc = "created"]]
    /\ pc' = "seq_await"
    /\ UNCHANGED <<regVars, busVars, condVars>>
    /\ UNCHANGED <<definition, active, status, current_step, step_results, error_log, idx,
                   pending_steps, completed_steps, results, context, tasks,
                   agentStatus, hist, ret>>

\* lines 335-341: the step returned
SeqStepDone ==
    /\ pc = "seq_await"
    /\ LET id == definition.steps[idx].id
           step_result == ProcessResult(id, task[id].input) IN
          /\ task[id].pc = "ok"
          /\ results' = Put(results, id, step_result)
          /\ context' = Put(context, id, step_result)
          /\ step_results' = Put(step_results, id, step_result)
    /\ current_step' = current_step + 1
    /\ idx' = idx + 1
    /\ pc' = "seq_loop"
    /\ UNCHANGED <<regVars, busVars, condVars>>
    /\ UNCHANGED <<definition, active, status, error_log, pending_steps, completed_steps,
                   tasks, task, agentStatus, hist, ret>>

\* the step raised: nothing catches it before _execute_workflow (line 300)
SeqStepRaised ==
    /\ pc = "seq_await"
    /\ LET id == definition.steps[idx].id IN
          /\ task[id].pc = "failed"
          /\ Failed(error_log, task[id].err)
    /\ UNCHANGED <<regVars, busVars, condVars>>
    /\ UNCHANGED <<definition, active, current_step, step_results, idx, pending_steps,
                   completed_steps, results, context, tasks, task, agentStatus, hist>>

\* --------------------------------------------- _execute_parallel_workflow
\* line 357: while pending_steps is false
ParReturn ==
    /\ pc = "par_loop"
    /\ pending_steps = << >>
    /\ Completed(results)
    /\ UNCHANGED <<regVars, busVars, condVars>>
    /\ UNCHANGED <<definition, active, current_step, step_results, error_log, idx,
                   pending_steps, completed_steps, results, context, tasks, task,
                   agentStatus, hist>>

\* lines 364-372: nothing is ready and no pending dependency is itself pending
ParDeadlock ==
    /\ pc = "par_loop"
    /\ pending_steps # << >>
    /\ ReadySteps(pending_steps, completed_steps) = << >>
    /\ DeadlockDetected(pending_steps)
    /\ Failed(error_log, "deadlock")
    /\ UNCHANGED <<regVars, busVars, condVars>>
    /\ UNCHANGED <<definition, active, current_step, step_results, idx, pending_steps,
                   completed_steps, results, context, tasks, task, agentStatus, hist>>

\* lines 374-376: nothing is ready: sleep 0.1 s and poll again
ParSleep ==
    /\ pc = "par_loop"
    /\ pending_steps # << >>
    /\ ReadySteps(pending_steps, completed_steps) = << >>
    /\ ~DeadlockDetected(pending_steps)
    /\ pc' = "par_sleep"
    /\ UNCHANGED <<regVars, busVars, condVars>>
    /\ UNCHANGED <<definition, active, status, current_step, step_results, error_log, idx,
                   pending_steps, completed_steps, results, context, tasks, task,
                   agentStatus, hist, ret>>

ParWake ==
    /\ pc = "par_sleep"
    /\ pc' = "par_loop"
    /\ UNCHANGED <<regVars, busVars, condVars>>
    /\ UNCHANGED <<definition, active, status, current_step, step_results, error_log, idx,
                   pending_steps, completed_steps, results, context, tasks, task,
                   agentStatus, hist, ret>>

\* lines 378-388: the ready steps whose condition is false are marked completed,
\* a task is created for each of the others
ParLaunch ==
    /\ pc = "par_loop"
    /\ LET ready == ReadySteps(pending_steps, completed_steps) IN
          /\ ready # << >>
          /\ \E skipped \in SUBSET {st.id : st \in {r \in Range(ready) : r.condition}} :
                LET launched == SelectSeq(ready, LAMBDA st : st.id \notin skipped) IN
                   /\ pending_steps' = SelectSeq(pending_steps, LAMBDA st : st.id \notin skipped)
                   /\ completed_steps' = completed_steps \cup skipped
                   /\ tasks' = launched
                   /\ task' = [s \in StepIds |->
                                  IF s \in Ids(launched) THEN [NoTask EXCEPT !.pc = "created"]
                                  ELSE task[s]]
                   /\ pc' = IF launched = << >> THEN "par_loop" ELSE "par_await"
    /\ idx' = 1
    /\ UNCHANGED <<regVars, busVars, condVars>>
    /\ UNCHANGED <<definition, active, status, current_step, step_results, error_log,
                   results, context, agentStatus, hist, ret>>

\* lines 394-399: the awaited task returned
ParTaskDone ==
    /\ pc = "par_await"
    /\ LET id == tasks[idx].id
           result == ProcessResult(id, task[id].input) IN
          /\ task[id].pc = "ok"
          /\ results' = Put(results, id, result)
          /\ context' = Put(context, id, result)
          /\ step_results' = Put(step_results, id, result)
          /\ completed_steps' = completed_steps \cup {id}
          /\ pending_steps' = Remove(pending_steps, id)
    /\ idx' = idx + 1
    /\ pc' = IF idx = Len(tasks) THEN "par_loop" ELSE "par_await"
    /\ UNCHANGED <<regVars, busVars, condVars>>
    /\ UNCHANGED <<definition, active, status, current_step, error_log, tasks, task,
                   agentStatus, hist, ret>>

\* lines 400-403: the awaited task raised and on_failure is "stop"
ParTaskRaisedStop ==
    /\ pc = "par_await"
    /\ definition.on_failure = "stop"
    /\ LET id == tasks[idx].id IN
          /\ task[id].pc = "failed"
          /\ Failed(Append(error_log, <<"step", id, task[id].err>>), task[id].err)
    /\ UNCHANGED <<regVars, busVars, condVars>>
    /\ UNCHANGED <<definition, active, current_step, step_results, idx, pending_steps,
                   completed_steps, results, context, tasks, task, agentStatus, hist>>

\* lines 400-405: the awaited task raised and on_failure is not "stop"
ParTaskRaisedContinue ==
    /\ pc = "par_await"
    /\ definition.on_failure # "stop"
    /\ LET id == tasks[idx].id IN
          /\ task[id].pc = "failed"
          /\ error_log' = Append(error_log, <<"step", id, task[id].err>>)
          /\ pending_steps' = Remove(pending_steps, id)
    /\ idx' = idx + 1
    /\ pc' = IF idx = Len(tasks) THEN "par_loop" ELSE "par_await"
    /\ UNCHANGED <<regVars, busVars, condVars>>
    /\ UNCHANGED <<definition, active, status, current_step, step_results, completed_steps,
                   results, context, tasks, task, agentStatus, hist, ret>>

\* ------------------------------------------------------------ _execute_step
AgentOf(s) == StepOf(s).agent_id

\* the outcome of one failed attempt (lines 432-439): raise on the last attempt,
\* otherwise sleep 1 s and try again
AttemptFailed(s, err) ==
    IF LastAttempt(task[s].attempt, definition.retry_count)
    THEN [task[s] EXCEPT !.pc = "failed", !.err = err]
    ELSE [task[s] EXCEPT !.pc = "sleep"]

\* the lookup failure handled as a failed attempt
TaskAgentNotFoundRetried(s) ==
    /\ task[s].pc = "created"
    /\ AgentOf(s) \notin agent_classes
    /\ task' = [task EXCEPT ![s] = AttemptFailed(s, "not_found")]
    /\ UNCHANGED <<regVars, busVars, condVars>>
    /\ UNCHANGED <<definition, active, status, current_step, step_results, error_log, pc,
                   idx, pending_steps, completed_steps, results, context, tasks,
                   agentStatus, hist, ret>>

\* line 416 with registry.py 124-126: no agent class under that id
TaskAgentNotFound(s) ==
    /\ task[s].pc = "created"
    /\ AgentOf(s) \notin agent_classes
    /\ task' = [task EXCEPT ![s] = [@ EXCEPT !.pc = "failed", !.err = "not_found"]]
    /\ UNCHANGED <<regVars, busVars, condVars>>
    /\ UNCHANGED <<definition, active, status, current_step, step_results, error_log, pc,
                   idx, pending_steps, completed_steps, results, context, tasks,
                   agentStatus, hist, ret>>

\* line 416 with registry.py 128-133 and base.py 151-153: the new instance's
\* start() raised, nothing is cached
TaskAgentStartRaised(s) ==
    /\ task[s].pc = "created"
    /\ AgentOf(s) \in agent_classes
    /\ agentStatus[AgentOf(s)] = "uncached"
    /\ task' = [task EXCEPT ![s] = [@ EXCEPT !.pc = "failed", !.err = "start_error"]]
    /\ UNCHANGED <<regVars, busVars, condVars>>
    /\ UNCHANGED <<definition, active, status, current_step, step_results, error_log, pc,
                   idx, pending_steps, completed_steps, results, context, tasks,
                   agentStatus, hist, ret>>

\* lines 416-425: the agent is obtained (cached, or created and started with
\* start() returning true or false), the context is substituted into the task
\* data and the attempt loop is entered; range(0) is empty (line 441)
TaskBegin(s) ==
    /\ task[s].pc = "created"
    /\ AgentOf(s) \in agent_classes
    /\ \/ /\ agentStatus[AgentOf(s)] # "uncached"
          /\ UNCHANGED agentStatus
       \/ /\ agentStatus[AgentOf(s)] = "uncached"
          /\ \E started \in {"ready", "initializing"} :
                agentStatus' = [agentStatus EXCEPT ![AgentOf(s)] = started]
    /\ task' = [task EXCEPT ![s] =
                  IF definition.retry_count = 0
                  THEN [@ EXCEPT !.pc = "failed", !.err = "no_attempts",
                                 !.input = SubstituteContextVariables(StepOf(s), context)]
                  ELSE [@ EXCEPT !.pc = "attempt",
                                 !.input = SubstituteContextVariables(StepOf(s), context)]]
    /\ UNCHANGED <<regVars, busVars, condVars>>
    /\ UNCHANGED <<definition, active, status, current_step, step_results, error_log, pc,
                   idx, pending_steps, completed_steps, results, context, tasks, hist, ret>>

\* another step's execute is between its readiness check and its end on agent a
Busy(a, s) ==
    \E t \in Ids(definition.steps) \ {s} :
        AgentOf(t) = a /\ task[t].pc \in {"validating", "processing"}

\* lines 427-428 with base.py 168-169: execute is called and finds the agent not ready
TaskRejected(s) ==
    /\ task[s].pc = "attempt"
    /\ agentStatus[AgentOf(s)] # "ready"
    /\ hist' = [hist EXCEPT ![s] = [@ EXCEPT !.invoked = @ + 1, !.rejected = TRUE,
                                     !.busyReject = @ \/ Busy(AgentOf(s), s)]]
    /\ task' = [task EXCEPT ![s] = AttemptFailed(s, "not_ready")]
    /\ UNCHANGED <<regVars, busVars, condVars>>
    /\ UNCHANGED <<definition, active, status, current_step, step_results, error_log, pc,
                   idx, pending_steps, completed_steps, results, context, tasks,
                   agentStatus, ret>>

\* lines 427-428 with base.py 168-172: execute is called, the agent is ready and
\* validate_input is awaited
TaskInvoke(s) ==
    /\ task[s].pc = "attempt"
    /\ agentStatus[AgentOf(s)] = "ready"
    /\ hist' = [hist EXCEPT ![s] = [@ EXCEPT !.invoked = @ + 1]]
    /\ task' = [task EXCEPT ![s] = [@ EXCEPT !.pc = "validating"]]
    /\ UNCHANGED <<regVars, busVars, condVars>>
    /\ UNCHANGED <<definition, active, status, current_step, step_results, error_log, pc,
                   idx, pending_steps, completed_steps, results, context, tasks,
                   agentStatus, ret>>

\* base.py 172-173: validate_input returned false
TaskInvalid(s) ==
    /\ task[s].pc = "validating"
    /\ hist' = [hist EXCEPT ![s] = [@ EXCEPT !.ownFail = TRUE]]
    /\ task' = [task EXCEPT ![s] = AttemptFailed(s, "invalid")]
    /\ UNCHANGED <<regVars, busVars, condVars>>
    /\ UNCHANGED <<definition, active, status, current_step, step_results, error_log, pc,
                   idx, pending_steps, completed_steps, results, context, tasks,
                   agentStatus, ret>>

\* base.py 176-181: validate_input returned true, the agent is RUNNING and
\* process is awaited
TaskValidated(s) ==
    /\ task[s].pc = "validating"
    /\ agentStatus' = [agentStatus EXCEPT ![AgentOf(s)] = "running"]
    /\ task' = [task EXCEPT ![s] = [@ EXCEPT !.pc = "processing"]]
    /\ UNCHANGED <<regVars, busVars, condVars>>
    /\ UNCHANGED <<definition, active, status, current_step, step_results, error_log, pc,
                   idx, pending_steps, completed_steps, results, context, tasks, hist, ret>>

\* base.py 181-193 and line 431: process returned, the agent is READY again
TaskProcessed(s) ==
    /\ task[s].pc = "processing"
    /\ agentStatus' = [agentStatus EXCEPT ![AgentOf(s)] = "ready"]
    /\ task' = [task EXCEPT ![s] = [@ EXCEPT !.pc = "ok"]]
    /\ UNCHANGED <<regVars, busVars, condVars>>
    /\ UNCHANGED <<definition, active, status, current_step, step_results, error_log, pc,
                   idx, pending_steps, completed_steps, results, context, tasks, hist, ret>>

\* base.py 195-197 and lines 436-439: process raised, the agent is in ERROR
TaskProcessRaised(s) ==
    /\ task[s].pc = "processing"
    /\ agentStatus' = [agentStatus EXCEPT ![AgentOf(s)] = "error"]
    /\ hist' = [hist EXCEPT ![s] = [@ EXCEPT !.ownFail = TRUE]]
    /\ task' = [task EXCEPT ![s] = AttemptFailed(s, "error")]
    /\ UNCHANGED <<regVars, busVars, condVars>>
    /\ UNCHANGED <<definition, active, status, current_step, step_results, error_log, pc,
                   idx, pending_steps, completed_steps, results, context, tasks, ret>>

\* lines 427-435: wait_for's timeout elapsed; execute is cancelled where it is
\* suspended, which base.py's "except Exception" does not see: status is kept
TaskTimeout(s) ==
    /\ task[s].pc \in {"validating", "processing"}
    /\ hist' = [hist EXCEPT ![s] = [@ EXCEPT !.ownFail = TRUE]]
    /\ task' = [task EXCEPT ![s] = AttemptFailed(s, "timeout")]
    /\ UNCHANGED <<regVars, busVars, condVars>>
    /\ UNCHANGED <<definition, active, status, current_step, step_results, error_log, pc,
                   idx, pending_steps, completed_steps, results, context, tasks,
                   agentStatus, ret>>

\* lines 435/439 and 425: the backoff sleep is over, next attempt
TaskRetry(s) ==
    /\ task[s].pc = "sleep"
    /\ task' = [task EXCEPT ![s] = [@ EXCEPT !.pc = "attempt", !.attempt = @ + 1]]
    /\ UNCHANGED <<regVars, busVars, condVars>>
    /\ UNCHANGED <<definition, active, status, current_step, step_results, error_log, pc,
                   idx, pending_steps, completed_steps, results, context, tasks,
                   agentStatus, hist, ret>>

\* ----------------------------------------------- pause / resume / cancel
\* lines 565-583
PauseWorkflow ==
    /\ active
    /\ status' = "paused"
    /\ UNCHANGED <<regVars, busVars, condVars>>
    /\ UNCHANGED <<definition, active, current_step, step_results, error_log, pc, idx,
                   pending_steps, completed_steps, results, context, tasks, task,
                   agentStatus, hist, ret>>

\* lines 585-609
ResumeWorkflow ==
    /\ active
    /\ status = "paused"
    /\ status' = "running"
    /\ UNCHANGED <<regVars, busVars, condVars>>
    /\ UNCHANGED <<definition, active, current_step, step_results, error_log, pc, idx,
                   pending_steps, completed_steps, results, context, tasks, task,
                   agentStatus, hist, ret>>

\* lines 611-630
CancelWorkflow ==
    /\ active
    /\ status' = "cancelled"
    /\ UNCHANGED <<regVars, busVars, condVars>>
    /\ UNCHANGED <<definition, active, current_step, step_results, error_log, pc, idx,
                   pending_steps, completed_steps, results, context, tasks, task,
                   agentStatus, hist, ret>>


\* ------------------------------------------------------ _evaluate_condition
\* strings are sequences of one-character strings; a context value is a str, a
\* bool or an int
TextValue(s) == [t |-> "str", s |-> s]
BoolValue(b) == [t |-> "bool", b |-> b]
IntValue(n) == [t |-> "int", n |-> n]

Digits == <<"0", "1", "2", "3", "4", "5", "6", "7", "8", "9">>

\* str(value)
Str(v) ==
    IF v.t = "bool" THEN (IF v.b THEN <<"T", "r", "u", "e">> ELSE <<"F", "a", "l", "s", "e">>)
    ELSE IF v.t = "int" THEN <<Digits[v.n + 1]>>
    ELSE v.s

\* bool(value)
Truthy(v) ==
    IF v.t = "bool" THEN v.b
    ELSE IF v.t = "int" THEN v.n # 0
    ELSE v.s # << >>

\* str.replace(old, new) for a non-empty old: the occurrences are replaced from
\* left to right, without overlap
RECURSIVE Replace(_, _, _)
Replace(s, old, new) ==
    IF Len(s) < Len(old) THEN s
    ELSE IF SubSeq(s, 1, Len(old)) = old
         THEN new \o Replace(SubSeq(s, Len(old) + 1, Len(s)), old, new)
         ELSE <<Head(s)>> \o Replace(Tail(s), old, new)

\* lines 452-453: every context key is replaced in the condition by the text of
\* its value, in the order of the dictionary; items is a sequence of <<key, value>>
RECURSIVE ReplaceAll(_, _)
ReplaceAll(condition, items) ==
    IF items = << >> THEN condition
    ELSE ReplaceAll(Replace(condition, Head(items)[1], Str(Head(items)[2])), Tail(items))

Contains(s, ch) == \E i \in 1..Len(s) : s[i] = ch

\* str.split(ch)
RECURSIVE Split(_, _)
Split(s, ch) ==
    IF ~Contains(s, ch) THEN <<s>>
    ELSE LET i == CHOOSE k \in 1..Len(s) : s[k] = ch /\ \A j \in 1..(k - 1) : s[j] # ch
         IN  <<SubSeq(s, 1, i - 1)>> \o Split(SubSeq(s, i + 1, Len(s)), ch)

\* str.strip()
RECURSIVE Strip(_)
Strip(s) ==
    IF s = << >> THEN s
    ELSE IF Head(s) = " " THEN Strip(Tail(s))
    ELSE IF s[Len(s)] = " " THEN Strip(SubSeq(s, 1, Len(s) - 1))
    ELSE s

\* float(s) on the texts that occur here: a non-empty run of digits is a
\* number, every other text raises ValueError
IsNumber(s) == s # << >> /\ \A i \in 1..Len(s) : \E d \in 1..Len(Digits) : Digits[d] = s[i]
RECURSIVE Float(_)
Float(s) ==
    IF s = << >> THEN 0
    ELSE 10 * Float(SubSeq(s, 1, Len(s) - 1))
         + (CHOOSE d \in 1..Len(Digits) : Digits[d] = s[Len(s)]) - 1

HasKey(items, key) == \E i \in 1..Len(items) : items[i][1] = key
Lookup(items, key) == items[CHOOSE i \in 1..Len(items) : items[i][1] = key][2]

\* _evaluate_condition (lines 447-467); an exception inside gives True
EvaluateCondition(condition, items) ==
    LET replaced == ReplaceAll(condition, items)
    IN  IF Contains(replaced, ">")
        THEN LET parts == Split(replaced, ">")
             IN  IF Len(parts) # 2 THEN TRUE
                 ELSE IF ~IsNumber(Strip(parts[1])) \/ ~IsNumber(Strip(parts[2])) THEN TRUE
                 ELSE Float(Strip(parts[1])) > Float(Strip(parts[2]))
        ELSE IF Contains(replaced, "=")
        THEN LET parts == Split(replaced, "=")
             IN  IF Len(parts) # 2 THEN TRUE
                 ELSE Strip(parts[1]) = Strip(parts[2])
        ELSE IF HasKey(items, replaced) THEN Truthy(Lookup(items, replaced))
        ELSE TRUE

\* the inputs: context keys, context values, contexts of distinct keys, and
\* conditions (bare keys, a text that is no key, a comparison, an equality)
CondKeys == {<<"a">>, <<"b">>, <<"a", "b">>}
CondValues == {BoolValue(TRUE), BoolValue(FALSE), IntValue(0), IntValue(1),
               TextValue(<< >>), TextValue(<<"a">>), TextValue(<<"b">>)}
Contexts ==
    LET items == CondKeys \X CondValues
    IN  {<< >>} \cup {<<x>> : x \in items}
                \cup {<<x, y>> : <<x, y>> \in {p \in items \X items : p[1][1] # p[2][1]}}
Conditions == CondKeys \cup {<<"c">>, <<"a", ">", "0">>, <<"a", " ", "=", " ", "1">>}

NotEvaluated == [pc |-> "idle", result |-> TRUE, run |-> FALSE]

CondInit ==
    evaluation = [NotEvaluated EXCEPT !.pc = "unused"] @@
                 [condition |-> << >>, context |-> << >>]

\* lines 330-334 of the sequential loop (382-387 of the parallel one): a step
\* with a condition is run when the condition evaluates to true
Evaluate ==
    /\ evaluation.pc = "idle"
    /\ LET result == EvaluateCondition(evaluation.condition, evaluation.context)
       IN  evaluation' = [evaluation EXCEPT !.pc = "done", !.result = result,
                                            !.run = ~(evaluation.condition # << >> /\ ~result)]
    /\ UNCHANGED <<engineVars, regVars, busVars>>

\* =============================================================== MessageBus
\* MessagePriority values (communication.py lines 25-30)
LOW == 1
NORMAL == 2
HIGH == 3
CRITICAL == 4
Priorities == {LOW, NORMAL, HIGH, CRITICAL}

Stamps == 1..MaxStamp                 \* values of Message.timestamp
Recipients == {"a", "b", "*"}         \* keys of MessageBus.subscribers
\* "handle_a" is AgentCommunicator("a")._handle_message, "h1" and "h2" are
\* handlers of other subscribers
Callbacks == {"handle_a", "h1", "h2"}
Requesters == 1..NumRequests          \* coroutines calling send_request

\* Message (lines 33-44); reply_to = 0 is None; expires_at is "none" (None), or
\* "past" / "future" as datetime.utcnow() finds it when the message is sent
Message(id, priority, sender, recipient, stamp, reply, expires) ==
    [id |-> id, priority |-> priority, sender_id |-> sender, recipient_id |-> recipient,
     timestamp |-> stamp, reply_to |-> reply, expires_at |-> expires]
NoMessage == Message(0, NORMAL, "", "", 1, 0, "none")

\* --- the PriorityQueue: heapq over the tuples (priority, timestamp, message)
\* line 149: the first component of a queued tuple
PriorityKey(m) == <<4 - m.priority, m.timestamp>>

\* x < y on two queued tuples (line 150): the keys decide; with equal keys the
\* timestamps are equal too and the comparison reaches the two Message objects,
\* which define no order (TypeError)
ItemLess(x, y) ==
    LET kx == PriorityKey(x)
        ky == PriorityKey(y)
    IN  IF kx[1] # ky[1] THEN (IF kx[1] < ky[1] THEN "lt" ELSE "ge")
        ELSE IF kx[2] # ky[2] THEN (IF kx[2] < ky[2] THEN "lt" ELSE "ge")
        ELSE "error"

Swap(h, i, j) == [h EXCEPT ![i + 1] = h[j + 1], ![j + 1] = h[i + 1]]

\* heapq's sift towards the root; positions count from 0
RECURSIVE SiftDown(_, _, _)
SiftDown(h, startpos, pos) ==
    IF pos <= startpos THEN [heap |-> h, ok |-> TRUE]
    ELSE LET parentpos == (pos - 1) \div 2
             cmp == ItemLess(h[pos + 1], h[parentpos + 1])
         IN  IF cmp = "error" THEN [heap |-> h, ok |-> FALSE]
             ELSE IF cmp = "ge" THEN [heap |-> h, ok |-> TRUE]
             ELSE SiftDown(Swap(h, pos, parentpos), startpos, parentpos)

\* heapq's sift towards the leaves, then back towards the root
RECURSIVE SiftUp(_, _, _)
SiftUp(h, startpos, pos) ==
    IF pos >= Len(h) \div 2 THEN SiftDown(h, startpos, pos)
    ELSE LET left == 2 * pos + 1
             cmp == IF left + 1 < Len(h) THEN ItemLess(h[left + 1], h[left + 2])
                    ELSE "lt"
             childpos == IF cmp = "lt" THEN left ELSE left + 1
         IN  IF cmp = "error" THEN [heap |-> h, ok |-> FALSE]
             ELSE SiftUp(Swap(h, pos, childpos), startpos, childpos)

\* PriorityQueue._put (line 150): the item is appended, then sifted
HeapPush(h, m) == SiftDown(Append(h, m), 0, Len(h))

\* PriorityQueue._get (line 110): the last item replaces the root, the old root
\* is returned when the sift succeeds and is dropped when it fails
HeapPop(h) ==
    LET n == Len(h)
        rest == SubSeq(h, 1, n - 1)
    IN  IF n = 1 THEN [heap |-> << >>, ok |-> TRUE, item |-> h[1]]
        ELSE LET sifted == SiftUp([rest EXCEPT ![1] = h[n]], 0, 0)
             IN  [heap |-> sifted.heap, ok |-> sifted.ok, item |-> h[1]]

\* ---- the bus after MessageBus() and AgentCommunicator("a", bus) (lines 80-84, 175-178)
\* begin, calls and unsub are observations of the delivery in progress: the list
\* when the iteration began, the callbacks invoked so far, in order, and the
\* callbacks unsubscribed since it began; heard is an observation of the run:
\* the (message id, callback) pairs of the invocations made for broadcasts
IdleLoop == [pc |-> "idle", msg |-> NoMessage, key |-> "", list |-> << >>, i |-> 0,
             invoked |-> 0, raised |-> {}, begin |-> << >>, calls |-> << >>,
             unsub |-> {}, heard |-> {}]
NoFuture == [state |-> "none", result |-> NoMessage]
\* swept and late are observations: cleanup cancelled the future; _handle_message
\* ran on a reply to the request after that
IdleRequest == [pc |-> "idle", id |-> 0, future |-> NoFuture, outcome |-> "none",
                response |-> NoMessage, swept |-> FALSE, late |-> FALSE]
NothingSent == [id |-> 0, expired |-> FALSE, how |-> "none"]

BusInit ==
    /\ subscribers = [k \in {} |-> << >>]
    /\ message_queue = << >>
    /\ running = FALSE
    /\ loop = IdleLoop
    /\ pending_requests = [k \in {} |-> 0]
    /\ request = [r \in Requesters |-> IdleRequest]
    /\ nextId = 1
    /\ sent = NothingSent

\* lines 86-92
BusStart ==
    /\ ~running
    /\ running' = TRUE
    /\ loop' = [loop EXCEPT !.pc = "get"]
    /\ UNCHANGED <<subscribers, message_queue, pending_requests, request, nextId, sent>>
    /\ UNCHANGED <<engineVars, regVars, condVars>>

\* send_message (lines 141-150): what becomes of the queue, and how the call ends
NeverExpired(m) == FALSE
Expired(m) == m.expires_at # "none" /\ m.expires_at = "past"
SendMessage(q, m) ==
    IF Expired(m) THEN [queue |-> q, how |-> "dropped"]
    ELSE LET pushed == HeapPush(q, m)
         IN  [queue |-> pushed.heap, how |-> IF pushed.ok THEN "queued" ELSE "raised"]

\* a publisher builds a Message and awaits send_message (lines 141-150); limit
\* bounds the messages of a run
Publish(limit, priority, stamp, expires, recipient) ==
    /\ nextId <= limit
    /\ LET m == Message(nextId, priority, "p", recipient, stamp, 0, expires)
           s == SendMessage(message_queue, m)
       IN  /\ message_queue' = s.queue
           /\ sent' = [id |-> m.id, expired |-> m.expires_at = "past", how |-> s.how]
    /\ nextId' = nextId + 1
    /\ UNCHANGED <<subscribers, running, loop, pending_requests, request>>
    /\ UNCHANGED <<engineVars, regVars, condVars>>

\* ---- subscribe / unsubscribe (lines 152-169)
RECURSIVE TotalSubscribed(_)
TotalSubscribed(keys) ==
    IF keys = {} THEN 0
    ELSE LET k == CHOOSE x \in keys : TRUE
         IN  Len(subscribers[k]) + TotalSubscribed(keys \ {k})

\* the list object the delivery loop iterates is the one stored under key k
Iterating(k) == loop.pc = "handler" /\ loop.key = k

SubscribeAppend(subs, agent_id, callback) ==
    Put(subs, agent_id,
        (IF agent_id \in DOMAIN subs THEN subs[agent_id] ELSE << >>) \o <<callback>>)

Subscribe(agent_id, callback) ==
    /\ TotalSubscribed(DOMAIN subscribers) < MaxSubscribe
    /\ subscribers' = SubscribeAppend(subscribers, agent_id, callback)
    /\ loop' = IF Iterating(agent_id)
               THEN [loop EXCEPT !.list = subscribers'[agent_id]] ELSE loop
    /\ UNCHANGED <<message_queue, running, pending_requests, request, nextId, sent>>
    /\ UNCHANGED <<engineVars, regVars, condVars>>

\* list.remove(callback): the first occurrence goes
RECURSIVE RemoveFirst(_, _)
RemoveFirst(list, callback) ==
    IF list = << >> THEN << >>
    ELSE IF Head(list) = callback THEN Tail(list)
    ELSE <<Head(list)>> \o RemoveFirst(Tail(list), callback)

\* the callbacks cbs are unsubscribed while a delivery is in progress
Unsubscribed(l, cbs) == IF l.pc = "handler" THEN [l EXCEPT !.unsub = @ \cup cbs] ELSE l

\* unsubscribe(agent_id, callback), lines 160-166: the callback is removed from
\* the list object, also when the delivery loop is iterating that list
UnsubscribeCallback(agent_id, callback) ==
    /\ agent_id \in DOMAIN subscribers
    /\ callback \in Range(subscribers[agent_id])
    /\ subscribers' = [subscribers EXCEPT ![agent_id] = RemoveFirst(@, callback)]
    /\ loop' = Unsubscribed(IF Iterating(agent_id)
                            THEN [loop EXCEPT !.list = subscribers'[agent_id]] ELSE loop,
                            {callback})
    /\ UNCHANGED <<message_queue, running, pending_requests, request, nextId, sent>>
    /\ UNCHANGED <<engineVars, regVars, condVars>>

\* unsubscribe(agent_id), lines 160-169: the key goes, a list object under
\* iteration stays as it is and is no longer the one subscribe appends to
Without(subs, agent_id) == [k \in DOMAIN subs \ {agent_id} |-> subs[k]]
Detached(l, agent_id) == IF l.key = agent_id THEN [l EXCEPT !.key = ""] ELSE l

UnsubscribeAll(agent_id) ==
    /\ agent_id \in DOMAIN subscribers
    /\ subscribers' = Without(subscribers, agent_id)
    /\ loop' = Unsubscribed(Detached(loop, agent_id), Range(subscribers[agent_id]))
    /\ UNCHANGED <<message_queue, running, pending_requests, request, nextId, sent>>
    /\ UNCHANGED <<engineVars, regVars, condVars>>

\* ---- the delivery loop (lines 104-139)
\* _handle_message of the communicator (lines 185-191)
PendingFuture == [state |-> "pending", result |-> NoMessage]
Done(future) == future.state # "pending"

\* _handle_message of the communicator (lines 185-191); futs are the futures the
\* send_request coroutines hold, table is pending_requests
ResolveAnyReply(futs, table, m) ==
    IF m.reply_to # 0 /\ \E k \in DOMAIN table : ~Done(futs[table[k]].future)
    THEN LET k == CHOOSE x \in DOMAIN table : ~Done(futs[table[x]].future)
         IN  [futs EXCEPT ![table[k]].future = [state |-> "result", result |-> m]]
    ELSE futs
Resolve(futs, table, m) ==
    IF m.reply_to # 0 /\ m.reply_to \in DOMAIN table
    THEN IF ~Done(futs[table[m.reply_to]].future)
         THEN [futs EXCEPT ![table[m.reply_to]].future = [state |-> "result", result |-> m]]
         ELSE futs
    ELSE futs

\* the handler's call, observed
HandleMessage(futs, table, m) ==
    LET after == Resolve(futs, table, m)
    IN  [r \in DOMAIN after |->
            IF after[r].swept /\ after[r].id = m.reply_to
            THEN [after[r] EXCEPT !.late = TRUE] ELSE after[r]]

\* lines 135-139: the callbacks of the list from position i on, up to the first
\* one that suspends; _handle_message never suspends, other handlers do
RECURSIVE RunCallbacks(_, _, _)
RunCallbacks(l, list, futs) ==
    LET Hears(cb) ==
            IF l.msg.recipient_id = "*" THEN l.heard \cup {<<l.msg.id, cb>>} ELSE l.heard
    IN
    IF l.i >= Len(list)
    THEN [loop |-> [IdleLoop EXCEPT !.pc = "get", !.raised = l.raised,
                                    !.heard = l.heard],
          futs |-> futs]
    ELSE IF list[l.i + 1] = "handle_a"
    THEN RunCallbacks([l EXCEPT !.i = @ + 1, !.invoked = @ + 1,
                                !.calls = Append(@, "handle_a"),
                                !.heard = Hears("handle_a")], list,
                      HandleMessage(futs, pending_requests, l.msg))
    ELSE [loop |-> [l EXCEPT !.pc = "handler", !.list = list, !.i = @ + 1,
                             !.invoked = @ + 1, !.calls = Append(@, list[l.i + 1]),
                             !.heard = Hears(list[l.i + 1])],
          futs |-> futs]

\* lines 109-111: a message leaves the queue
LoopGet ==
    /\ loop.pc = "get"
    /\ message_queue # << >>
    /\ LET popped == HeapPop(message_queue)
       IN  /\ popped.ok
           /\ message_queue' = popped.heap
           /\ loop' = [loop EXCEPT !.pc = "deliver", !.msg = popped.item]
    /\ UNCHANGED <<subscribers, running, pending_requests, request, nextId, sent>>
    /\ UNCHANGED <<engineVars, regVars, condVars>>

\* lines 109-111, 117-118: the get raises inside the heap, the loop prints and
\* goes on
LoopGetRaised ==
    /\ loop.pc = "get"
    /\ message_queue # << >>
    /\ LET popped == HeapPop(message_queue)
       IN  /\ ~popped.ok
           /\ message_queue' = popped.heap
    /\ UNCHANGED <<subscribers, running, loop, pending_requests, request, nextId, sent>>
    /\ UNCHANGED <<engineVars, regVars, condVars>>

\* lines 122-132: the list the message goes to
ResolveKey(subs, recipient_id) ==
    IF recipient_id \in DOMAIN subs THEN recipient_id
    ELSE IF "*" \in DOMAIN subs THEN "*"
    ELSE ""

\* lines 113, 120-137
LoopDeliver ==
    /\ loop.pc = "deliver"
    /\ LET key == ResolveKey(subscribers, loop.msg.recipient_id)
           list == IF key = "" THEN << >> ELSE subscribers[key]
           run == RunCallbacks([loop EXCEPT !.key = key, !.i = 0, !.invoked = 0,
                                            !.begin = list],
                               list, request)
       IN  /\ loop' = run.loop
           /\ request' = run.futs
    /\ UNCHANGED <<subscribers, message_queue, running, pending_requests, nextId, sent>>
    /\ UNCHANGED <<engineVars, regVars, condVars>>

\* lines 135-137: a handler returns, the iteration goes on
HandlerReturned ==
    /\ loop.pc = "handler"
    /\ LET run == RunCallbacks(loop, loop.list, request)
       IN  /\ loop' = run.loop
           /\ request' = run.futs
    /\ UNCHANGED <<subscribers, message_queue, running, pending_requests, nextId, sent>>
    /\ UNCHANGED <<engineVars, regVars, condVars>>

\* lines 135-139: a handler raises, the loop prints and the iteration goes on
AfterRaiseStop(l, list, futs) ==
    [loop |-> [IdleLoop EXCEPT !.pc = "get", !.raised = l.raised \cup {l.msg.id},
                               !.heard = l.heard],
     futs |-> futs]
AfterRaise(l, list, futs) ==
    RunCallbacks([l EXCEPT !.raised = @ \cup {l.msg.id}], list, futs)

HandlerRaised ==
    /\ loop.pc = "handler"
    /\ LET run == AfterRaise(loop, loop.list, request)
       IN  /\ loop' = run.loop
           /\ request' = run.futs
    /\ UNCHANGED <<subscribers, message_queue, running, pending_requests, nextId, sent>>
    /\ UNCHANGED <<engineVars, regVars, condVars>>

\* ---- AgentCommunicator("a") (lines 172-276)
\* lines 180-183
Initialize == Subscribe("a", "handle_a")

\* the communicator of agent "a" has been initialized on the bus
Initialized == "a" \in DOMAIN subscribers /\ "handle_a" \in Range(subscribers["a"])

\* broadcast_status of the communicator of agent "b" (lines 233-242), called
\* once agent "a" is initialized
BroadcastStatus(stamp) ==
    /\ Initialized
    /\ nextId <= MaxMsgs
    /\ LET m == Message(nextId, NORMAL, "b", "*", stamp, 0, "none")
           s == SendMessage(message_queue, m)
       IN  /\ message_queue' = s.queue
           /\ sent' = [id |-> m.id, expired |-> FALSE, how |-> s.how]
    /\ nextId' = nextId + 1
    /\ UNCHANGED <<subscribers, running, loop, pending_requests, request>>
    /\ UNCHANGED <<engineVars, regVars, condVars>>

\* lines 215-218: the finally clause of send_request
KeepEntry(table, id) == table
ForgetEntry(table, id) == [k \in DOMAIN table \ {id} |-> table[k]]

\* send_request up to its first suspension (lines 196-212): the message is built,
\* the future is stored under its id, the message is sent, the coroutine waits;
\* a send that raises runs the finally clause and reaches the caller
SendRequest(r, stamp) ==
    /\ request[r].pc = "idle"
    /\ nextId <= MaxMsgs
    /\ LET m == Message(nextId, NORMAL, "a", "b", stamp, 0, "none")
           table == Put(pending_requests, m.id, r)
           s == SendMessage(message_queue, m)
           waiting == [IdleRequest EXCEPT !.pc = "waiting", !.id = m.id,
                                          !.future = PendingFuture]
       IN  /\ message_queue' = s.queue
           /\ sent' = [id |-> m.id, expired |-> m.expires_at = "past", how |-> s.how]
           /\ IF s.how = "raised"
              THEN /\ pending_requests' = ForgetEntry(table, m.id)
                   /\ request' = [request EXCEPT ![r] =
                          [waiting EXCEPT !.pc = "returned", !.outcome = "send_error"]]
              ELSE /\ pending_requests' = table
                   /\ request' = [request EXCEPT ![r] = waiting]
    /\ nextId' = nextId + 1
    /\ UNCHANGED <<subscribers, running, loop>>
    /\ UNCHANGED <<engineVars, regVars, condVars>>

\* send_request leaves (lines 212-218)
Leave(r, outcome, response) ==
    /\ request' = [request EXCEPT ![r].pc = "returned", ![r].outcome = outcome,
                                  ![r].response = response]
    /\ pending_requests' = ForgetEntry(pending_requests, request[r].id)
    /\ UNCHANGED <<subscribers, message_queue, running, loop, nextId, sent>>
    /\ UNCHANGED <<engineVars, regVars, condVars>>

\* line 212-213: the future has a result
RequestAnswered(r) ==
    /\ request[r].pc = "waiting"
    /\ request[r].future.state = "result"
    /\ Leave(r, "response", request[r].future.result)

\* line 212: the future was cancelled under the waiting coroutine
RequestCancelled(r) ==
    /\ request[r].pc = "waiting"
    /\ request[r].future.state = "cancelled"
    /\ Leave(r, "cancelled", NoMessage)

\* line 212: the timeout passes first; wait_for cancels the future and waits
\* for the cancellation to land
RequestTimeout(r) ==
    /\ request[r].pc = "waiting"
    /\ request[r].future.state = "pending"
    /\ request' = [request EXCEPT ![r].pc = "timing_out",
                                  ![r].future.state = "cancelled"]
    /\ UNCHANGED <<subscribers, message_queue, running, loop, pending_requests,
                   nextId, sent>>
    /\ UNCHANGED <<engineVars, regVars, condVars>>

\* line 212: wait_for raises TimeoutError
RequestTimedOut(r) ==
    /\ request[r].pc = "timing_out"
    /\ Leave(r, "timeout", NoMessage)

\* send_response of the communicator of "b" (lines 220-231)
Issued == {request[r].id : r \in Requesters} \ {0}
SendResponse(id, stamp) ==
    /\ id \in Issued
    /\ nextId <= MaxMsgs
    /\ LET m == Message(nextId, NORMAL, "b", "a", stamp, id, "none")
           s == SendMessage(message_queue, m)
       IN  /\ message_queue' = s.queue
           /\ sent' = [id |-> m.id, expired |-> m.expires_at = "past", how |-> s.how]
    /\ nextId' = nextId + 1
    /\ UNCHANGED <<subscribers, running, loop, pending_requests, request>>
    /\ UNCHANGED <<engineVars, regVars, condVars>>

\* cleanup (lines 268-276)
Outstanding(futs, table, r) ==
    (\E k \in DOMAIN table : table[k] = r) /\ ~Done(futs[r].future)
LeaveFutures(futs, table) ==
    [r \in DOMAIN futs |->
        IF Outstanding(futs, table, r) THEN [futs[r] EXCEPT !.swept = TRUE]
        ELSE futs[r]]
CancelFutures(futs, table) ==
    [r \in DOMAIN futs |->
        IF Outstanding(futs, table, r)
        THEN [futs[r] EXCEPT !.future.state = "cancelled", !.swept = TRUE]
        ELSE futs[r]]

Cleanup ==
    /\ subscribers' = Without(subscribers, "a")
    /\ loop' = Detached(loop, "a")
    /\ request' = CancelFutures(request, pending_requests)
    /\ pending_requests' = [k \in {} |-> 0]
    /\ pending_requests # pending_requests' \/ subscribers # subscribers'
    /\ UNCHANGED <<message_queue, running, nextId, sent>>
    /\ UNCHANGED <<engineVars, regVars, condVars>>

\* ---- the two bus specifications' steps
LoopStep == LoopGet \/ LoopGetRaised \/ LoopDeliver

BusNext ==
    \/ BusStart
    \/ \E p \in Priorities, t \in Stamps, e \in {"none", "past", "future"} :
          Publish(MaxMsgs, p, t, e, "b")
    \/ \E cb \in {"h1", "h2"} : Subscribe("b", cb)
    \/ LoopStep
    \/ HandlerReturned
    \/ HandlerRaised

\* a burst of messages that carry one timestamp, for a recipient nobody
\* subscribed for
QueueNext ==
    \/ BusStart
    \/ \E p \in Priorities : Publish(MaxBurst, p, 1, "none", "b")
    \/ LoopStep

\* subscribe of a callback the recipient does not have yet
SubscribeNew(agent_id, callback) ==
    /\ agent_id \in DOMAIN subscribers => callback \notin Range(subscribers[agent_id])
    /\ Subscribe(agent_id, callback)

\* one recipient whose handlers come and go while messages are delivered
DeliveryNext ==
    \/ BusStart
    \/ \E t \in Stamps : Publish(MaxMsgs, NORMAL, t, "none", "b")
    \/ \E cb \in {"h1", "h2"} : SubscribeNew("b", cb)
    \/ \E cb \in {"h1", "h2"} : UnsubscribeCallback("b", cb)
    \/ UnsubscribeAll("b")
    \/ LoopStep
    \/ HandlerReturned
    \/ HandlerRaised

\* agent "a" initialized, agent "b" broadcasting, and a subscriber of "*"
BroadcastNext ==
    \/ BusStart
    \/ Initialize
    \/ Subscribe("*", "h1")
    \/ \E t \in Stamps : BroadcastStatus(t)
    \/ \E p \in Priorities : Publish(MaxMsgs, p, 1, "none", "a")
    \/ LoopStep
    \/ HandlerReturned
    \/ HandlerRaised

RequestStep(r) ==
    \/ \E t \in Stamps : SendRequest(r, t)
    \/ RequestAnswered(r)
    \/ RequestCancelled(r)
    \/ RequestTimeout(r)
    \/ RequestTimedOut(r)

CommNext ==
    \/ BusStart
    \/ Initialize
    \/ \E r \in Requesters : RequestStep(r)
    \/ \E id \in 1..MaxMsgs, t \in Stamps : SendResponse(id, t)
    \/ Cleanup
    \/ LoopStep

\* ============================================================ AgentRegistry
Callers == 1..NumCallers
Instances == 1..MaxInst

Idle == [op |-> "none", pcr |-> "idle", auto_start |-> TRUE, agent |-> 0]
NoObservation ==
    [calls |-> 0, plain |-> TRUE, raised |-> FALSE, returned |-> {}, got |-> 0,
     starts |-> 0, peak |-> 0, missed |-> FALSE, failed |-> {}, refused |-> {}]

RegistryInit ==
    /\ agents = 0
    /\ inst = [i \in Instances |-> "unborn"]
    /\ monitoring = FALSE
    /\ locked = FALSE
    /\ waiters = << >>
    /\ call = [c \in Callers |-> Idle]
    /\ reg = NoObservation

Constructed == {i \in Instances : inst[i] # "unborn"}

\* the registry's state as one value, so that the code between two suspension
\* points is applied as one step
Registry ==
    [agents |-> agents, inst |-> inst, monitoring |-> monitoring, locked |-> locked,
     waiters |-> waiters, call |-> call, reg |-> reg]
Becomes(R) ==
    /\ agents' = R.agents
    /\ inst' = R.inst
    /\ monitoring' = R.monitoring
    /\ locked' = R.locked
    /\ waiters' = R.waiters
    /\ call' = R.call
    /\ reg' = R.reg

\* agent_class(config): the next instance
NewInstance(R) ==
    CHOOSE i \in Instances :
        R.inst[i] = "unborn" /\ \A j \in 1..(i - 1) : R.inst[j] # "unborn"

\* "async with self._lock": asyncio.Lock.acquire returns at once when the lock
\* is free and nobody is queued, and queues the caller otherwise
CanAcquireUnlocked(isLocked, queue) == TRUE
CanAcquire(isLocked, queue) == ~isLocked /\ queue = << >>

\* the caller is queued on the lock
Enqueue(R, c, where) ==
    [R EXCEPT !.waiters = Append(@, c),
              !.call[c].pcr = where,
              !.reg.peak = IF Len(R.waiters) + 1 > @ THEN Len(R.waiters) + 1 ELSE @]

\* get_agent returns agent a to caller c, leaving the lock
Return(R, c, a) ==
    [R EXCEPT !.locked = FALSE,
              !.call[c] = Idle,
              !.reg.returned = @ \cup {a},
              !.reg.got = @ + 1]

\* registry.py 135-140: the new instance is cached and monitored, and returned
CacheAndReturn(R, c, a) ==
    Return([R EXCEPT !.agents = a, !.monitoring = TRUE], c, a)

\* registry.py 116-133, up to the first suspension: a cached instance is
\* returned, after a restart when it is stopped and auto_start is set; otherwise
\* an instance is constructed (INITIALIZING) and started when auto_start is set
GetAgentBody(R, c) ==
    IF R.agents # 0
    THEN IF R.inst[R.agents] = "stopped" /\ R.call[c].auto_start
         THEN [R EXCEPT !.call[c].pcr = "restart",
                        !.call[c].agent = R.agents,
                        !.reg.starts = @ + 1]
         ELSE Return(R, c, R.agents)
    ELSE LET a == NewInstance(R)
             R1 == [R EXCEPT !.inst[a] = "initializing", !.call[c].agent = a]
         IN IF R.call[c].auto_start
            THEN [R1 EXCEPT !.call[c].pcr = "start", !.reg.starts = @ + 1]
            ELSE CacheAndReturn(R1, c, a)

\* registry.py 175-177: remove_agent deletes the cache entry under the lock
RemoveBody(R, c) ==
    [R EXCEPT !.agents = 0, !.locked = FALSE, !.call[c] = Idle]

\* the end of stop_agent: the lock is left; remove_agent goes on to take it
\* again (registry.py 174-175), which succeeds at once or queues the caller
AfterStop(R, c) ==
    LET R1 == [R EXCEPT !.locked = FALSE] IN
    IF R.call[c].op = "stop" THEN [R1 EXCEPT !.call[c] = Idle]
    ELSE IF CanAcquire(R1.locked, R1.waiters)
         THEN RemoveBody([R1 EXCEPT !.locked = TRUE], c)
         ELSE Enqueue(R1, c, "wait_del")

\* registry.py 166-169 with base.py 155-164, up to the first suspension: the
\* cached instance is STOPPED and its cleanup() is awaited
StopAgentBody(R, c) ==
    IF R.agents # 0
    THEN [R EXCEPT !.inst[R.agents] = "stopped", !.call[c].pcr = "cleanup"]
    ELSE AfterStop(R, c)

\* registry.py 116, 124-125: get_agent for an id that has no agent class and so
\* no cache entry raises ValueError and leaves the lock
NotFoundBody(R, c) ==
    [R EXCEPT !.locked = FALSE, !.call[c] = Idle, !.reg.missed = TRUE]

Body(R, c) ==
    IF R.call[c].op = "get" THEN GetAgentBody(R, c)
    ELSE IF R.call[c].op = "get_unknown" THEN NotFoundBody(R, c)
    ELSE StopAgentBody(R, c)

\* the cap on constructed instances: a get_agent that would construct one more
\* than MaxInst is not run
WithinInstances(R, c) ==
    (R.call[c].op = "get" /\ R.agents = 0) => \E i \in Instances : R.inst[i] = "unborn"

\* a caller issues get_agent(id, auto_start), stop_agent(id) or remove_agent(id)
\* for the registered id, or get_agent for an id without agent class
Call(c) ==
    /\ call[c].pcr = "idle"
    /\ reg.calls < MaxCalls
    /\ \E op \in {"get", "stop", "remove", "get_unknown"}, auto \in BOOLEAN :
          /\ op # "get" => auto
          /\ call' = [call EXCEPT ![c] = [op |-> op, pcr |-> "acquire", auto_start |-> auto,
                                          agent |-> 0]]
          /\ reg' = [reg EXCEPT !.calls = @ + 1, !.plain = @ /\ op = "get" /\ auto]
    /\ UNCHANGED <<agents, inst, monitoring, locked, waiters>>
    /\ UNCHANGED <<engineVars, busVars, condVars>>

\* registry.py 115 / 166: the coroutine runs; it takes the lock and runs to its
\* first suspension, or is queued on the lock
Acquire(c) ==
    /\ call[c].pcr = "acquire"
    /\ WithinInstances(Registry, c)
    /\ IF CanAcquire(locked, waiters)
       THEN Becomes(Body([Registry EXCEPT !.locked = TRUE], c))
       ELSE Becomes(Enqueue(Registry, c, "wait"))
    /\ UNCHANGED <<engineVars, busVars, condVars>>

\* the first queued acquirer was woken by a release: it takes the lock and runs
\* to its next suspension
Resume(c) ==
    /\ call[c].pcr \in {"wait", "wait_del"}
    /\ ~locked
    /\ waiters # << >> /\ Head(waiters) = c
    /\ WithinInstances(Registry, c)
    /\ LET R1 == [Registry EXCEPT !.locked = TRUE, !.waiters = Tail(@)] IN
          IF call[c].pcr = "wait" THEN Becomes(Body(R1, c)) ELSE Becomes(RemoveBody(R1, c))
    /\ UNCHANGED <<engineVars, busVars, condVars>>

\* base.py 144-150: start() returns, true (READY) or false (status kept);
\* a new instance is then cached, a restarted one returned
StartReturned(c) ==
    /\ call[c].pcr \in {"start", "restart"}
    /\ \E ok \in BOOLEAN :
          LET a == call[c].agent
              R1 == [Registry EXCEPT
                        !.inst[a] = IF ok THEN "ready" ELSE @,
                        !.reg.failed = IF ~ok /\ call[c].pcr = "start"
                                       THEN @ \cup {a} ELSE @,
                        !.reg.refused = IF ok THEN @ ELSE @ \cup {a}] IN
             IF call[c].pcr = "start"
             THEN Becomes(CacheAndReturn(R1, c, a))
             ELSE Becomes(Return(R1, c, a))
    /\ UNCHANGED <<engineVars, busVars, condVars>>

\* base.py 151-153: start() raised (ERROR); the exception leaves get_agent,
\* which releases the lock without caching
StartRaised(c) ==
    /\ call[c].pcr \in {"start", "restart"}
    /\ Becomes([Registry EXCEPT !.inst[call[c].agent] = "error",
                                !.locked = FALSE,
                                !.call[c] = Idle,
                                !.reg.raised = TRUE,
                                !.reg.failed = IF call[c].pcr = "start"
                                               THEN @ \cup {call[c].agent} ELSE @])
    /\ UNCHANGED <<engineVars, busVars, condVars>>

\* registry.py 170: cleanup() returned; monitoring stops and stop_agent returns
StopDone(c) ==
    /\ call[c].pcr = "cleanup"
    /\ Becomes(AfterStop([Registry EXCEPT !.monitoring = FALSE], c))
    /\ UNCHANGED <<engineVars, busVars, condVars>>

RegistryStep(c) ==
    \/ Call(c) \/ Acquire(c) \/ Resume(c)
    \/ StartReturned(c) \/ StartRaised(c) \/ StopDone(c)

RegNext == \E c \in Callers : RegistryStep(c)

\* the registry alone: the engine's variables rest at the values of an
\* execution that was never submitted
RegInit ==
    /\ RegistryInit
    /\ EngineInit
    /\ BusInit
    /\ CondInit
    /\ definition = [steps |-> WfChain, parallel_execution |-> FALSE,
                     on_failure |-> "stop", retry_count |-> 0]
RegSpec == RegInit /\ [][RegNext]_vars

\* the bus and the communicator, next to an engine and a registry at rest
BusSpec == RegInit /\ [][BusNext]_vars
QueueSpec == RegInit /\ [][QueueNext]_vars
CommSpec == RegInit /\ [][CommNext]_vars
DeliverySpec == RegInit /\ [][DeliveryNext]_vars
BroadcastSpec == RegInit /\ [][BroadcastNext]_vars

\* one evaluation of a step condition, for every condition and context of the
\* input sets
CondSpecInit ==
    /\ RegistryInit
    /\ BusInit
    /\ EngineInit
    /\ definition = [steps |-> WfGuarded, parallel_execution |-> FALSE,
                     on_failure |-> "stop", retry_count |-> 0]
    /\ \E c \in Conditions, items \in Contexts :
          evaluation = NotEvaluated @@ [condition |-> c, context |-> items]
CondSpec == CondSpecInit /\ [][Evaluate]_vars

\* ---------------------------------------------------------- specification
EngineStep ==
    \/ ExecuteWorkflow
    \/ SeqReturn \/ SeqSkip \/ SeqExecute \/ SeqStepDone \/ SeqStepRaised
    \/ ParReturn \/ ParDeadlock \/ ParSleep \/ ParWake \/ ParLaunch
    \/ ParTaskDone \/ ParTaskRaisedStop \/ ParTaskRaisedContinue

TaskStep(s) ==
    \/ TaskAgentNotFound(s) \/ TaskAgentStartRaised(s) \/ TaskBegin(s)
    \/ TaskRejected(s) \/ TaskInvoke(s) \/ TaskInvalid(s) \/ TaskValidated(s)
    \/ TaskProcessed(s) \/ TaskProcessRaised(s) \/ TaskTimeout(s) \/ TaskRetry(s)

Next ==
    \/ EngineStep
    \/ \E s \in StepIds : TaskStep(s)
    \/ PauseWorkflow \/ ResumeWorkflow \/ CancelWorkflow

Init == EngineInit /\ RegistryInit /\ BusInit /\ CondInit
Spec == Init /\ [][Next]_vars

\* the event loop runs every runnable coroutine: the engine and each step task
FairSpec ==
    /\ Spec
    /\ WF_vars(EngineStep)
    /\ \A s \in StepIds : WF_vars(TaskStep(s))

\* ------------------------------------------------------------------ claims
Parallel == definition.parallel_execution
StepSet == Ids(definition.steps)
\* every attempt of every step was accepted and succeeded
AllSucceeded ==
    \A s \in StepSet :
        task[s].pc # "failed" /\ ~hist[s].ownFail /\ ~hist[s].rejected

\* C1: in parallel mode a workflow of two mutually dependent steps ends with a
\* deadlock failure; the poll loop does not go on forever (executions that are
\* paused or cancelled on the way are left aside)
C1_CycleEndsInDeadlockFailure ==
    (definition.steps = WfCycle /\ Parallel)
        => \/ <>(ret = [kind |-> "failure", error |-> "deadlock"])
           \/ <>(status \in {"paused", "cancelled"})

\* C2: in parallel mode no step's task exists before all its dependencies are
\* completed; for {A, B, C after A and B} with every step succeeding, A and B
\* have results before C starts and the result counts 3 executed steps
C2_DependenciesCompleteBeforeStart ==
    Parallel =>
        /\ \A s \in StepSet :
              task[s].pc # "none" => StepOf(s).dependencies \subseteq completed_steps
        /\ definition.steps = WfJoin =>
              /\ task["C"].pc # "none" => {"A", "B"} \subseteq DOMAIN step_results
              /\ (pc = "done" /\ AllSucceeded) =>
                    /\ ret.kind = "workflow_completed"
                    /\ ret.steps_executed = 3
                    /\ DOMAIN ret.step_results = {"A", "B", "C"}

C2_Witness ==
    /\ Parallel /\ definition.steps = WfJoin
    /\ pc = "done" /\ AllSucceeded
    /\ hist["C"].invoked = 1
    /\ ret.kind = "workflow_completed" /\ ret.steps_executed = 3

\* the steps s depends on, directly or through other steps
RECURSIVE DepsClosure(_, _)
DepsClosure(S, n) ==
    IF n = 0 THEN S
    ELSE DepsClosure(S \cup UNION {StepOf(t).dependencies : t \in S \cap StepSet}, n - 1)
TransDeps(s) == DepsClosure(StepOf(s).dependencies, Len(definition.steps))

\* s is given every chance to succeed: it has a retry budget, its agent was
\* obtained and started, none of its own attempts failed in validate_input or
\* process or timed out, and it was never turned away because another step was
\* using its agent at that moment
OwnWorkSucceeds(s) ==
    /\ definition.retry_count > 0
    /\ AgentOf(s) \in agent_classes
    /\ agentStatus[AgentOf(s)] \notin {"uncached", "initializing"}
    /\ task[s].err \notin {"not_found", "start_error"}
    /\ ~hist[s].ownFail
    /\ ~hist[s].busyReject

\* C3: parallel mode, on_failure=continue: when the execution has ended and a
\* step B has failed, every step D that does not depend on B and whose
\* dependencies have results has a result itself, and no step depending on B
\* had its agent's execute invoked
C3_FailureDoesNotReachSiblings ==
    (pc = "done" /\ Parallel /\ definition.on_failure = "continue") =>
        \A B \in {s \in StepSet : task[s].pc = "failed"} :
            /\ \A D \in StepSet \ {B} :
                  ( /\ B \notin TransDeps(D)
                    /\ StepOf(D).dependencies \subseteq DOMAIN step_results
                    /\ OwnWorkSucceeds(D) )
                  => D \in DOMAIN step_results
            /\ \A E \in StepSet : B \in TransDeps(E) => hist[E].invoked = 0

\* C4: parallel mode, on_failure=stop: once the execution has been aborted with
\* a failure, no agent execute is started for it any more
C4_NoExecuteAfterAbort ==
    [][ (pc = "done" /\ Parallel /\ definition.on_failure = "stop"
            /\ status = "failed" /\ ret.kind = "failure")
        => (\A s \in StepIds : hist'[s].invoked = hist[s].invoked) ]_vars

\* C5: a step whose every attempt failed had its agent's execute invoked
\* exactly retry_count times when its failure is raised, and never more than
\* retry_count times at any moment (the agent having been obtained)
C5_ExactlyRetryCountAttempts ==
    \A s \in StepSet :
        /\ hist[s].invoked <= definition.retry_count
        /\ (task[s].pc = "failed" /\ task[s].err \notin {"not_found", "start_error"})
              => hist[s].invoked = definition.retry_count

C5_Witness ==
    \E s \in StepSet :
        /\ task[s].pc = "failed" /\ task[s].err = "timeout"
        /\ definition.retry_count = 2
        /\ hist[s].invoked = 2

\* C6: for the chain A -> B -> C with every step succeeding, the parallel loop
\* starts no step before its dependencies have results, and its returned
\* step_results and steps_executed are those of the sequential loop
C6_ChainParallelEqualsSequential ==
    definition.steps = WfChain =>
        /\ Parallel =>
              \A s \in StepSet :
                  task[s].pc # "none" => StepOf(s).dependencies \subseteq DOMAIN step_results
        /\ (pc = "done" /\ AllSucceeded) =>
              /\ ret.kind = "workflow_completed"
              /\ ret.step_results = SequentialResults(WfChain, 1, EmptyMap)
              /\ ret.steps_executed = Cardinality(DOMAIN SequentialResults(WfChain, 1, EmptyMap))
              /\ ret.steps_executed = 3
              /\ step_results = ret.step_results

C6_Witness ==
    /\ definition.steps = WfChain /\ Parallel
    /\ pc = "done" /\ AllSucceeded
    /\ ret.kind = "workflow_completed"
    /\ ret.step_results["C"] = <<"C", "B", "A">>

\* C7: under any interleaving of pause, resume and cancel with the engine, the
\* status moves only along the edges of the state machine; checked on the part
\* the claim singles out: completed, failed and cancelled are never left once
\* entered, and paused is entered only from running
C7_StatusFollowsStateMachine ==
    [][ /\ (status \in {"completed", "failed", "cancelled"}) => status' = status
        /\ (status' = "paused" /\ status # "paused") => status = "running" ]_vars

\* C8: while the execution is paused or cancelled, no step that has not started
\* is started
C8_NoNewStepWhilePausedOrCancelled ==
    [][ (status \in {"paused", "cancelled"})
        => (\A s \in StepIds : task[s].pc = "none" => task'[s].pc = "none") ]_vars

\* C9: at any time at most one started, not stopped instance made by the
\* registry for the id exists
C9_AtMostOneLiveInstance ==
    Cardinality({i \in Instances : inst[i] = "ready"}) <= 1

\* C10: while only get_agent(id) calls with auto_start have been made on an
\* empty cache and none has raised, however they overlap: one instance at most
\* is constructed, start() is called once at most, and as soon as a call has
\* returned, every returned agent is the one cached instance, constructed once
\* and started once
C10_ConcurrentGetConstructsOnce ==
    (reg.plain /\ ~reg.raised) =>
        /\ Cardinality(Constructed) <= 1
        /\ reg.starts <= 1
        /\ reg.got > 0 =>
              /\ Cardinality(Constructed) = 1
              /\ reg.starts = 1
              /\ agents # 0
              /\ reg.returned = {agents}

C10_Witness ==
    /\ reg.plain /\ ~reg.raised
    /\ reg.peak >= 2
    /\ reg.got = 3
    /\ reg.returned = {1}
    /\ inst[1] = "ready"

\* C11: with several send_request calls of one communicator outstanding, a future
\* is resolved only by a message whose reply_to is the id of its own request, a
\* send_request returns only such a message, and a request that still waits for
\* its answer is in pending_requests under its id from the moment it is sent.
C11_ResponseResolvesItsOwnRequest ==
    \A r \in Requesters :
        /\ request[r].future.state = "result"
              => request[r].future.result.reply_to = request[r].id
        /\ request[r].outcome = "response"
              => request[r].response.reply_to = request[r].id
        /\ (request[r].pc = "waiting" /\ ~Done(request[r].future))
              => /\ request[r].id \in DOMAIN pending_requests
                 /\ pending_requests[request[r].id] = r

\* two requests were outstanding when the response was made; one returned with
\* it, the other still waits
C11_Witness ==
    \E r1, r2 \in Requesters :
        /\ r1 # r2
        /\ request[r1].outcome = "response"
        /\ request[r2].pc = "waiting"
        /\ request[r2].future.state = "pending"
        /\ request[r2].id < request[r1].response.id

\* C12: a send_request whose timeout passes before a reply resolved its future
\* ends with the timeout failure: no response comes with it, and it is not the
\* end of a call that cleanup cancelled; and once send_request has returned,
\* however it ended, pending_requests has no entry under the request's id.
C12_TimeoutLeavesNoEntry ==
    \A r \in Requesters :
        /\ request[r].pc = "returned" => request[r].id \notin DOMAIN pending_requests
        /\ request[r].pc = "timing_out" => request[r].future.state = "cancelled"
        /\ request[r].outcome = "timeout"
              => /\ request[r].future.state = "cancelled"
                 /\ request[r].response = NoMessage
                 /\ ~request[r].swept
        /\ request[r].outcome = "response" => request[r].future.state = "result"
        /\ request[r].outcome = "cancelled" => request[r].swept

\* one call timed out and left the table while another still waits in it
C12_Witness ==
    \E r1, r2 \in Requesters :
        /\ request[r1].pc = "returned"
        /\ request[r1].outcome = "timeout"
        /\ request[r2].pc = "waiting"
        /\ DOMAIN pending_requests = {request[r2].id}

\* C13: a cleanup leaves pending_requests empty; every send_request whose future
\* was unresolved at that moment has its future cancelled for good, ends as
\* cancelled and never with a response, and no reply handled afterwards changes
\* that.
C13_CleanupCancelsForGood ==
    /\ [](\A r \in Requesters :
            request[r].swept
              => /\ request[r].id \notin DOMAIN pending_requests
                 /\ request[r].future.state = "cancelled"
                 /\ request[r].response = NoMessage
                 /\ request[r].pc \in {"waiting", "returned"}
                 /\ request[r].pc = "returned" => request[r].outcome = "cancelled")
    /\ [][ (\E r \in Requesters : ~request[r].swept /\ request'[r].swept)
             => (DOMAIN pending_requests' = {}) ]_vars

\* a call cancelled by cleanup has returned, and _handle_message has since run
\* on a reply to its request
C13_Witness ==
    \E r \in Requesters :
        /\ request[r].swept
        /\ request[r].late
        /\ request[r].outcome = "cancelled"

Queued == {message_queue[i] : i \in 1..Len(message_queue)}
Delivering == loop.pc \in {"deliver", "handler"}

\* C14: of two messages for the same recipient with the same priority, the one
\* send_message queued first is delivered first: while a message is being
\* delivered, no such message queued before it (smaller id) is still in the queue.
C14_EqualPriorityFifo ==
    Delivering =>
        \A e \in Queued :
            (e.recipient_id = loop.msg.recipient_id /\ e.priority = loop.msg.priority)
                => e.id > loop.msg.id

\* C15: at the step that takes a message out of the queue, no message left in
\* the queue has a higher priority.
C15_HighestPriorityFirst ==
    [][ (loop.pc = "get" /\ loop'.pc = "deliver")
          => (\A i \in 1..Len(message_queue') :
                 message_queue'[i].priority <= loop'.msg.priority) ]_vars

\* C16: a message whose expires_at is past when send_message is called is not in
\* the queue and not in the hands of the delivery loop, and its send_message
\* returned without an error.
C16_ExpiredIsDroppedSilently ==
    /\ \A e \in Queued : e.expires_at # "past"
    /\ Delivering => loop.msg.expires_at # "past"
    /\ sent.expired
         => /\ sent.how = "dropped"
            /\ \A e \in Queued : e.id # sent.id
            /\ Delivering => loop.msg.id # sent.id

\* an expired message was sent to a recipient with a subscriber on a running bus
C16_Witness ==
    /\ sent.expired
    /\ running
    /\ "b" \in DOMAIN subscribers
    /\ subscribers["b"] # << >>
    /\ loop.pc = "get"

\* C17: while a handler runs, the delivery of the message ends only when the
\* list of handlers is exhausted, whether the handler returns or raises; the
\* loop then waits for the next message; and the step at which a handler raises
\* changes nothing of what send_message gave its caller, nor the queue.
C17_HandlerFailureIsContained ==
    [][ (loop.pc = "handler")
          => /\ (loop'.pc # "handler")
                   => (loop.i >= Len(loop.list) /\ loop'.pc = "get")
             /\ (loop'.pc = "handler")
                   => (loop'.msg = loop.msg /\ loop'.i >= loop.i)
             /\ (loop'.raised # loop.raised)
                   => (sent' = sent /\ message_queue' = message_queue) ]_vars

\* a handler raised on an earlier message; on a later one the first handler
\* raised and the second is running
C17_Witness ==
    /\ loop.pc = "handler"
    /\ loop.i = 2
    /\ loop.msg.id \in loop.raised
    /\ \E k \in loop.raised : k < loop.msg.id

\* C18: a message for a recipient other than "*" is in the queue at most once,
\* and at most one handler is invoked for it, whatever subscribe calls were made
\* for the recipient.
C18_DirectMessageHandledAtMostOnce ==
    /\ \A i, j \in 1..Len(message_queue) :
           i # j => message_queue[i].id # message_queue[j].id
    /\ (Delivering /\ loop.msg.recipient_id # "*") => loop.invoked <= 1

\* C19: get_agent for an id without agent class raises and leaves the cache as
\* it was; and an instance whose creation failed, because start raised or
\* returned false, is not cached and is never returned by get_agent.
C19_FailedCreationIsNotCached ==
    /\ [](\A a \in reg.failed : agents # a /\ a \notin reg.returned)
    /\ [][ \A c \in Callers :
             (call[c].op = "get_unknown" /\ call'[c] = Idle)
                => (agents' = agents /\ inst' = inst /\ reg'.missed) ]_vars

\* the position of step s in definition.steps
Position(s) == CHOOSE i \in 1..Len(definition.steps) : definition.steps[i].id = s

\* C20: sequential mode, on_failure=continue: when the execution has ended and a
\* step B has failed with its last attempt, the execution did not end as a
\* failure, and every step after B that does not depend on B was executed.
C20_SequentialContinuesAfterFailure ==
    (pc = "done" /\ ~Parallel /\ definition.on_failure = "continue") =>
        \A B \in {s \in StepSet : task[s].pc = "failed"} :
            (definition.retry_count > 0
                /\ task[B].err \notin {"not_found", "start_error", "no_attempts"})
            => /\ ret.kind # "failure"
               /\ \A D \in StepSet :
                     (Position(D) > Position(B) /\ B \notin TransDeps(D))
                        => task[D].pc # "none"

\* the definition has a dependency cycle: a step depends on itself, directly or
\* through other steps
Cyclic == \E s \in StepSet : s \in TransDeps(s)

\* C21: in sequential mode an execution of a workflow with a dependency cycle
\* that has ended has status failed and returned a failure result
C21_SequentialCycleIsFatal ==
    (pc = "done" /\ ~Parallel /\ Cyclic) =>
        /\ ret.kind = "failure"
        /\ status # "completed"

\* C22: a step bound to an agent id without a registered class never has an
\* agent's execute invoked, never waits for a retry and never starts an attempt
\* after the first lookup, whatever retry_count is: its task goes from created
\* to failed with the not-found error and stays there
C22_UnknownAgentIsNeverRetried ==
    /\ [](\A s \in StepSet :
            AgentOf(s) \notin agent_classes =>
                /\ hist[s].invoked = 0
                /\ task[s].attempt = 0
                /\ task[s].pc \in {"none", "created", "failed"}
                /\ task[s].pc = "failed" => task[s].err = "not_found")
    /\ [][ \A s \in StepSet :
            (AgentOf(s) \notin agent_classes /\ task[s].pc = "failed")
                => task'[s] = task[s] ]_vars

C22_Witness ==
    \E s \in StepSet :
        /\ AgentOf(s) \notin agent_classes
        /\ definition.retry_count = 2
        /\ task[s].pc = "failed" /\ task[s].err = "not_found"
        /\ pc = "done" /\ ret.kind = "failure"

\* C23: an attempt of a step that fails in the agent (validate_input or process
\* raised, or the attempt timed out) with attempts left, while no other step is
\* using the agent, leaves the agent ready, so that the next attempt's execute
\* is accepted
C23_FailedAttemptLeavesAgentReady ==
    [][ \A s \in StepSet :
            ( /\ task[s].pc \in {"validating", "processing"}
              /\ task'[s].pc = "sleep"
              /\ ~Busy(AgentOf(s), s) )
            => agentStatus'[AgentOf(s)] = "ready" ]_vars

\* C24: parallel mode, on_failure=continue: an execution that has ended after a
\* step with a dependent step failed has returned a workflow_completed result
\* holding the results of exactly the steps that succeeded, the failed step
\* and its dependents being absent
C24_ContinueEndsCompleted ==
    ( /\ pc = "done" /\ Parallel /\ definition.on_failure = "continue"
      /\ \E B \in StepSet :
            task[B].pc = "failed" /\ \E E \in StepSet : B \in StepOf(E).dependencies )
    => /\ ret.kind = "workflow_completed"
       /\ DOMAIN ret.step_results = {s \in StepSet : task[s].pc = "ok"}

\* the steps whose execute is awaiting process() on agent a
InFlight(a) == {s \in StepSet : AgentOf(s) = a /\ task[s].pc = "processing"}

\* C25: on every agent instance at most one process() is in flight at any time
C25_OneProcessInFlight ==
    \A a \in AgentIds : Cardinality(InFlight(a)) <= 1

\* how many times callback cb occurs in the sequence calls
Count(calls, cb) == Cardinality({i \in 1..Len(calls) : calls[i] = cb})

\* C26: when the delivery of a message ends, every callback that was in the
\* recipient's list when the delivery began and was not unsubscribed during the
\* delivery has been invoked exactly once
C26_NoSubscriptionSkipped ==
    [][ (loop.pc = "handler" /\ loop'.pc = "get")
        => (\A cb \in Range(loop.begin) \ loop.unsub : Count(loop.calls, cb) = 1) ]_vars

\* C27: when the delivery of a status broadcast of another agent ends while the
\* communicator of agent "a" is initialized, a's handler has been invoked with
\* that message
C27_BroadcastReachesInitialized ==
    [][ ( /\ loop.pc \in {"deliver", "handler"}
          /\ loop.msg.recipient_id = "*" /\ loop.msg.sender_id # "a"
          /\ Initialized
          /\ loop'.pc = "get" )
        => <<loop.msg.id, "handle_a">> \in loop'.heard ]_vars

\* C28: whenever a get_agent call with auto_start returns an instance, that
\* instance (the cached one) is started: its status is ready or running.
\* Instances whose start() reported failure by returning false are left aside.
C28_AutoStartReturnsStarted ==
    [][ \A c \in Callers :
            ( /\ call[c].op = "get" /\ call[c].auto_start
              /\ call[c].pcr # "idle" /\ call'[c].pcr = "idle"
              /\ reg'.got = reg.got + 1
              /\ agents' \notin reg'.refused )
            => inst'[agents'] \in {"ready", "running"} ]_vars

\* C29: a condition that is a key of the context evaluates to the truthiness
\* of that key's value, and the step is run exactly when the value is truthy
C29_BareKeyIsTruthiness ==
    (evaluation.pc = "done" /\ HasKey(evaluation.context, evaluation.condition)) =>
        /\ evaluation.result = Truthy(Lookup(evaluation.context, evaluation.condition))
        /\ evaluation.run = Truthy(Lookup(evaluation.context, evaluation.condition))

\* C30: at every moment of an execution, in both modes, current_step is the
\* number of entries of step_results and is at most the number of steps
C30_CurrentStepCountsResults ==
    /\ current_step = Cardinality(DOMAIN step_results)
    /\ current_step <= Len(definition.steps)
====
